---- MODULE Spec2Model ----
(***************************************************************************)
(* Three-way merge of ASS subtitle files (assdiff3.py).                    *)
(*                                                                         *)
(* Positions are the 0-based positions of the Python code; the element at  *)
(* position i of a TLA+ sequence s is s[i + 1].  A string the code builds  *)
(* by concatenation is a sequence of tokens, so "Own$" + name is           *)
(* <<"Own$">> \o name.                                                     *)
(***************************************************************************)
EXTENDS Integers, Sequences, FiniteSets, TLC

VARIABLES
    \* LineMatcher.find_matches
    self_a, self_b, memoizers, queue, matches, fm_pc,
    \* diff3: its arguments, the command line it reads, its locals, the lines
    \* it has yielded, the two global conflict flags; walk is the history of
    \* the steps of its loop
    A, O, B, conflict_handler, kwargs, args_diff3, args_conflict_marker,
    o_to_a, o_to_b, pos, prev_a, prev_b, prev_o, yielded,
    dialogue_conflict, style_conflict, d3_pc, inputs, walk,
    \* ASSLine.merge: its arguments and what it returned
    merge_a, merge_parent, merge_b, merged, merge_pc,
    \* merge_keyval: its arguments, --script-info and what it returned
    kv_A, kv_O, kv_B, args_script_info, kv_result, kv_pc,
    \* merge_extradata: the three files (the side table and the events of
    \* each, an event being its extra_indices), the files as they were passed,
    \* its locals, the file and the data line its loops are at, what it returned
    files, files_in, extradata_to_id, id_to_extradata, largest_id, id_map,
    ex_f, ex_line, ex_result, ex_pc

matchVars == <<self_a, self_b, memoizers, queue, matches, fm_pc>>
diffVars == <<A, O, B, conflict_handler, kwargs, args_diff3,
              args_conflict_marker, o_to_a, o_to_b, pos, prev_a, prev_b,
              prev_o, yielded, dialogue_conflict, style_conflict, d3_pc,
              inputs, walk>>
mergeVars == <<merge_a, merge_parent, merge_b, merged, merge_pc>>
keyvalVars == <<kv_A, kv_O, kv_B, args_script_info, kv_result, kv_pc>>
extraVars == <<files, files_in, extradata_to_id, id_to_extradata, largest_id,
               id_map, ex_f, ex_line, ex_result, ex_pc>>
vars == <<matchVars, diffVars, mergeVars, keyvalVars, extraVars>>

(***************************************************************************)
(* Bounds of the explored inputs.                                          *)
(***************************************************************************)
\* find_matches: len(a) + len(b) is at most MaxMatchTotal
MaxMatchTotal == 5
\* diff3: len(A) + len(O) + len(B) is at most MaxDiffTotal
MaxDiffTotal == 5
\* diff3 on sequences of one length: len(A) = len(O) = len(B) <= MaxEqualLen
MaxEqualLen == 2
\* merge_keyval: len(A) + len(O) + len(B) is at most MaxKeyvalTotal
MaxKeyvalTotal == 4
\* merge_extradata: the three side tables have at most MaxExtraTotal entries
\* together
MaxExtraTotal == 3

(***************************************************************************)
(* Records (ASSLine): a mapping from field names to strings.               *)
(***************************************************************************)
\* StyleLine, restricted to the key field and one other field
StyleLines ==
    [Name : {<<"x">>}, Fontname : {<<"x">>, <<"y">>, <<"z">>}]
        \cup [Name : {<<"y">>}, Fontname : {<<"x">>}]

\* DialogueLine, restricted to the fields the memoizers of main() read
DialogueLines ==
    [Text : {<<"x">>}, Start : {<<"x">>, <<"y">>, <<"z">>}, End : {<<"x">>}]
        \cup [Text : {<<"y">>}, Start : {<<"x">>}, End : {<<"x">>}]

SectionLines(kind) == IF kind = "V4+ Styles" THEN StyleLines ELSE DialogueLines

\* the records with the first Fontname (styles) or Start (events)
AncestorLines(kind) ==
    IF kind = "V4+ Styles"
    THEN {l \in StyleLines : l.Fontname = <<"x">>}
    ELSE {l \in DialogueLines : l.Start = <<"x">>}

\* the memoizers main() passes to diff3: each is the tuple of fields it reads
StyleMemoizers == << <<"Name">> >>
EventMemoizers == << <<"Text">>, <<"Start", "End">> >>

SectionMemoizers(kind) ==
    IF kind = "V4+ Styles" THEN StyleMemoizers ELSE EventMemoizers

Kinds == {"V4+ Styles", "Events"}

\* memoizer(line)
Memo(memoizer, line) == [k \in 1..Len(memoizer) |-> line[memoizer[k]]]

None == [None |-> TRUE]

\* ASSLine.merge(a, parent, b)
Changed(line, parent) == {field \in DOMAIN line : line[field] # parent[field]}

\* a variant of merge that fails only when the two sides disagree on the value
\* of a field both changed
merge_values_differ(a, parent, b) ==
    LET changed_a == Changed(a, parent)
        changed_b == Changed(b, parent)
    IN  IF \E field \in changed_a \cap changed_b : a[field] # b[field]
        THEN None
        ELSE [field \in DOMAIN parent |->
                IF field \in changed_b THEN b[field]
                ELSE IF field \in changed_a THEN a[field]
                ELSE parent[field]]

merge(a, parent, b) ==
    LET changed_a == Changed(a, parent)
        changed_b == Changed(b, parent)
    IN  IF changed_a \cap changed_b # {}
        THEN None
        ELSE [field \in DOMAIN parent |->
                IF field \in changed_b THEN b[field]
                ELSE IF field \in changed_a THEN a[field]
                ELSE parent[field]]

(***************************************************************************)
(* LineMatcher                                                             *)
(***************************************************************************)
\* index_maps[m][key]: the positions of b whose key under memoizer m is key,
\* in increasing order; imap.get(key, []) is empty for an absent key
Postings(b, memoizer, key) ==
    SelectSeq([n \in 1..Len(b) |-> n - 1],
              LAMBDA j : Memo(memoizer, b[j + 1]) = key)

\* heapq.merge of two sorted lists
RECURSIVE Merge2(_, _)
Merge2(s, t) ==
    IF s = <<>> THEN t
    ELSE IF t = <<>> THEN s
    ELSE IF Head(s) <= Head(t) THEN <<Head(s)>> \o Merge2(Tail(s), t)
    ELSE <<Head(t)>> \o Merge2(s, Tail(t))

\* heapq.merge(*lists)
RECURSIVE HeapqMerge(_)
HeapqMerge(lists) ==
    IF lists = <<>> THEN <<>>
    ELSE Merge2(Head(lists), HeapqMerge(Tail(lists)))

\* b_matches for line_a (duplicates kept: one per memoizer that agrees)
BMatches(b, memos, line_a) ==
    HeapqMerge([m \in 1..Len(memos) |->
                    Postings(b, memos[m], Memo(memos[m], line_a))])

\* match_lengths.get(j, 0)
GetLen(match_lengths, j) ==
    IF j \in DOMAIN match_lengths THEN match_lengths[j] ELSE 0

\* the inner loop of _lcs, "for j in b_matches", from the k-th candidate on;
\* st holds longest_match, start_a, start_b and updated_match_lengths
RECURSIVE LcsInner(_, _, _, _, _, _, _)
LcsInner(js, k, i, bi, bj, match_lengths, st) ==
    IF k > Len(js) THEN st
    ELSE LET j == js[k] IN
        IF j < bi THEN LcsInner(js, k + 1, i, bi, bj, match_lengths, st)
        ELSE IF j >= bj THEN st
        ELSE
            LET match_length == GetLen(match_lengths, j - 1) + 1
                upd == [x \in DOMAIN st.updated \cup {j} |->
                            IF x = j THEN match_length ELSE st.updated[x]]
                st2 == IF match_length > st.longest_match
                       THEN [longest_match |-> match_length,
                             start_a |-> i - match_length + 1,
                             start_b |-> j - match_length + 1,
                             updated |-> upd]
                       ELSE [st EXCEPT !.updated = upd]
            IN  LcsInner(js, k + 1, i, bi, bj, match_lengths, st2)

\* the outer loop of _lcs, "for i in range(ai, aj)", from row i on
RECURSIVE LcsRows(_, _, _, _, _, _, _, _, _)
LcsRows(a, b, memos, i, aj, bi, bj, match_lengths, st) ==
    IF i >= aj THEN <<st.start_a, st.start_b, st.longest_match>>
    ELSE
        LET row == LcsInner(BMatches(b, memos, a[i + 1]), 1, i, bi, bj,
                            match_lengths,
                            [st EXCEPT !.updated = <<>>])
        IN  LcsRows(a, b, memos, i + 1, aj, bi, bj, row.updated, row)

\* a variant of _lcs that searches all of b instead of the window [bi, bj)
LcsAnywhereInB(a, b, memos, ai, aj, bi, bj) ==
    LcsRows(a, b, memos, ai, aj, 0, Len(b), <<>>,
            [longest_match |-> 0, start_a |-> ai, start_b |-> bi,
             updated |-> <<>>])

\* LineMatcher._lcs(ai, aj, bi, bj)
Lcs(a, b, memos, ai, aj, bi, bj) ==
    LcsRows(a, b, memos, ai, aj, bi, bj, <<>>,
            [longest_match |-> 0, start_a |-> ai, start_b |-> bi,
             updated |-> <<>>])

\* one iteration of the while loop of find_matches on state <<queue, matches>>
FmIter(a, b, memos, q, ms) ==
    LET w == Head(q)
        ai == w[1]
        aj == w[2]
        bi == w[3]
        bj == w[4]
    IN  IF aj - ai <= 0 \/ bj - bi <= 0
        THEN <<Tail(q), ms>>
        ELSE
            LET match == Lcs(a, b, memos, ai, aj, bi, bj)
                start_a == match[1]
                start_b == match[2]
                match_length == match[3]
            IN  IF match_length > 0
                THEN <<Tail(q) \o << <<ai, start_a, bi, start_b>>,
                                     <<start_a + match_length, aj,
                                       start_b + match_length, bj>> >>,
                       Append(ms, match)>>
                ELSE <<Tail(q), Append(ms, match)>>

\* tuple comparison of matches.sort()
TupleLess(m, n) ==
    \/ m[1] < n[1]
    \/ m[1] = n[1] /\ m[2] < n[2]
    \/ m[1] = n[1] /\ m[2] = n[2] /\ m[3] < n[3]

RECURSIVE Insert(_, _)
Insert(m, sorted) ==
    IF sorted = <<>> THEN <<m>>
    ELSE IF TupleLess(m, Head(sorted)) THEN <<m>> \o sorted
    ELSE <<Head(sorted)>> \o Insert(m, Tail(sorted))

\* matches.sort()
RECURSIVE SortMatches(_)
SortMatches(ms) ==
    IF ms = <<>> THEN <<>>
    ELSE Insert(ms[Len(ms)], SortMatches(SubSeq(ms, 1, Len(ms) - 1)))

\* LineMatcher(a, b, memoizers).find_matches(), run to its return value
RECURSIVE FmLoop(_, _, _, _, _)
FmLoop(a, b, memos, q, ms) ==
    IF q = <<>> THEN SortMatches(ms)
    ELSE LET nxt == FmIter(a, b, memos, q, ms)
         IN  FmLoop(a, b, memos, nxt[1], nxt[2])

find_matches(a, b, memos) ==
    FmLoop(a, b, memos, << <<0, Len(a), 0, Len(b)>> >>, <<>>)

(***************************************************************************)
(* Conflict markers and the two conflict handlers                          *)
(***************************************************************************)
conflict_marker_size == 7

Repeat(tok, n) == [k \in 1..n |-> tok]

\* CONFLICT_MARKERS[args.conflict_marker][which]
CONFLICT_MARKERS(marker, diff3flag, which) ==
    IF marker = "diff3"
    THEN CASE which = "ours" -> Repeat("<", conflict_marker_size)
           [] which = "ancestor" -> Repeat("|", conflict_marker_size)
           [] which = "theirs" -> Repeat("=", conflict_marker_size)
           [] which = "end" -> Repeat(">", conflict_marker_size)
    ELSE CASE which = "ours" -> <<"Start of own hunk">>
           [] which = "ancestor" ->
                <<"End of own hunk; Start of common ancestor's hunk">>
           [] which = "theirs" ->
                <<"End of ",
                  IF diff3flag THEN "common ancestor's" ELSE "own",
                  " hunk; Start of other hunk">>
           [] which = "end" -> <<"End of other hunk">>

\* DialogueLine(CONFLICT_LINE.format(text)), on the fields of DialogueLines
ConflictLine(text) ==
    [Text |-> text, Start |-> <<"0:00:00.00">>, End |-> <<"0:00:00.00">>]

\* the records of list at the positions range(r[1], r[2])
RangeLen(r) == IF r[2] > r[1] THEN r[2] - r[1] ELSE 0
Slice(list, r) == [k \in 1..RangeLen(r) |-> list[r[1] + k]]

\* a variant of dialogue_conflict_handler that yields the ancestor's hunk
\* whether or not --diff3 is given
dialogue_conflict_handler_with_ancestor(a_hunk, b_hunk, o_hunk, marker, diff3flag) ==
    <<ConflictLine(CONFLICT_MARKERS(marker, diff3flag, "ours"))>>
    \o a_hunk
    \o <<ConflictLine(CONFLICT_MARKERS(marker, diff3flag, "ancestor"))>>
    \o o_hunk
    \o <<ConflictLine(CONFLICT_MARKERS(marker, diff3flag, "theirs"))>>
    \o b_hunk
    \o <<ConflictLine(CONFLICT_MARKERS(marker, diff3flag, "end"))>>

\* dialogue_conflict_handler(a_hunk, b_hunk, o_hunk): the lines it yields
dialogue_conflict_handler(a_hunk, b_hunk, o_hunk, marker, diff3flag) ==
    <<ConflictLine(CONFLICT_MARKERS(marker, diff3flag, "ours"))>>
    \o a_hunk
    \o (IF diff3flag
        THEN <<ConflictLine(CONFLICT_MARKERS(marker, diff3flag, "ancestor"))>>
             \o o_hunk
        ELSE <<>>)
    \o <<ConflictLine(CONFLICT_MARKERS(marker, diff3flag, "theirs"))>>
    \o b_hunk
    \o <<ConflictLine(CONFLICT_MARKERS(marker, diff3flag, "end"))>>

\* line.Name = tag + line.Name, on every record of list in range r
Rename(list, r, tag) ==
    [n \in 1..Len(list) |->
        IF r[1] < n /\ n <= r[2]
        THEN [list[n] EXCEPT !.Name = <<tag>> \o @]
        ELSE list[n]]

(***************************************************************************)
(* diff3                                                                   *)
(***************************************************************************)
\* OrderedDict: a sequence of <<key, value>> with distinct keys
HasKey(d, key) == \E n \in 1..Len(d) : d[n][1] = key
Get(d, key) == d[CHOOSE n \in 1..Len(d) : d[n][1] = key][2]
Put(d, key, value) ==
    IF HasKey(d, key)
    THEN [n \in 1..Len(d) |-> IF d[n][1] = key THEN <<key, value>> ELSE d[n]]
    ELSE Append(d, <<key, value>>)

\* map_indices(matches)
RECURSIVE MapRun(_, _, _)
MapRun(ind_map, m, i) ==
    IF i >= m[3] THEN ind_map
    ELSE MapRun(Put(ind_map, m[1] + i, m[2] + i), m, i + 1)

RECURSIVE MapFrom(_, _, _)
MapFrom(ind_map, ms, n) ==
    IF n > Len(ms) THEN ind_map
    ELSE MapFrom(MapRun(ind_map, ms[n], 0), ms, n + 1)

map_indices(ms) == MapFrom(<<>>, ms, 1)

\* a variant of hunks_equal that compares the lengths of the hunks only
hunks_equal_length(list1, hunk1, list2, hunk2) ==
    RangeLen(hunk1) = RangeLen(hunk2)

\* hunks_equal(list1, hunk1, list2, hunk2), the hunks being ranges
hunks_equal(list1, hunk1, list2, hunk2) ==
    /\ RangeLen(hunk1) = RangeLen(hunk2)
    /\ \A k \in 1..RangeLen(hunk1) :
        list1[hunk1[1] + k] = list2[hunk2[1] + k]

\* a variant of process_hunks that does not test ab_equal
process_hunks_no_ab_equal(la, lo, lb, a_hunk, b_hunk, o_hunk, handler, marker, diff3flag) ==
    LET a_changed == ~hunks_equal(la, a_hunk, lo, o_hunk)
        b_changed == ~hunks_equal(lb, b_hunk, lo, o_hunk)
        same == [A |-> la, B |-> lb, dialogue |-> FALSE, style |-> FALSE]
    IN  IF ~b_changed
        THEN same @@ [lines |-> Slice(la, a_hunk)]
        ELSE IF ~a_changed
        THEN same @@ [lines |-> Slice(lb, b_hunk)]
        ELSE IF handler = "dialogue_conflict_handler"
        THEN [same EXCEPT !.dialogue = TRUE]
             @@ [lines |-> dialogue_conflict_handler(
                               Slice(la, a_hunk), Slice(lb, b_hunk),
                               Slice(lo, o_hunk), marker, diff3flag)]
        ELSE LET ra == Rename(la, a_hunk, "Own$")
                 rb == Rename(lb, b_hunk, "Other$")
             IN  [A |-> ra, B |-> rb, dialogue |-> FALSE, style |-> TRUE,
                  lines |-> Slice(ra, a_hunk) \o Slice(rb, b_hunk)]

\* process_hunks(a_hunk, b_hunk, o_hunk) in the state <<la, lo, lb>> of the
\* three lists: what it yields, the lists after it (the style handler
\* renames the records it is handed) and the flags it sets
process_hunks(la, lo, lb, a_hunk, b_hunk, o_hunk, handler, marker, diff3flag) ==
    LET a_changed == ~hunks_equal(la, a_hunk, lo, o_hunk)
        b_changed == ~hunks_equal(lb, b_hunk, lo, o_hunk)
        ab_equal == hunks_equal(la, a_hunk, lb, b_hunk)
        same == [A |-> la, B |-> lb, dialogue |-> FALSE, style |-> FALSE]
    IN  IF ab_equal \/ (a_changed /\ ~b_changed)
        THEN same @@ [lines |-> Slice(la, a_hunk)]
        ELSE IF b_changed /\ ~a_changed
        THEN same @@ [lines |-> Slice(lb, b_hunk)]
        ELSE IF handler = "dialogue_conflict_handler"
        THEN [same EXCEPT !.dialogue = TRUE]
             @@ [lines |-> dialogue_conflict_handler(
                               Slice(la, a_hunk), Slice(lb, b_hunk),
                               Slice(lo, o_hunk), marker, diff3flag)]
        ELSE LET ra == Rename(la, a_hunk, "Own$")
                 rb == Rename(lb, b_hunk, "Other$")
             IN  [A |-> ra, B |-> rb, dialogue |-> FALSE, style |-> TRUE,
                  lines |-> Slice(ra, a_hunk) \o Slice(rb, b_hunk)]

(***************************************************************************)
(* merge_keyval                                                            *)
(***************************************************************************)
\* o_map.update(items)
RECURSIVE Update(_, _)
Update(d, items) ==
    IF items = <<>> THEN d
    ELSE Update(Put(d, Head(items)[1], Head(items)[2]), Tail(items))

\* lines_to_map(lines)
lines_to_map(lines) ==
    Update(<<>>, [n \in 1..Len(lines) |-> <<lines[n].Type, lines[n].Value>>])

Keys(d) == {d[n][1] : n \in 1..Len(d)}

\* a_changed, b_changed: the items of t_map that o_map lacks or has with
\* another value, in the order of t_map
ChangedItems(t_map, o_map) ==
    SelectSeq(t_map, LAMBDA item :
        ~HasKey(o_map, item[1]) \/ Get(o_map, item[1]) # item[2])

\* a variant of a_removed, b_removed that forgets every removal
NoRemovedKeys(t_map, o_map) == {}

\* a_removed, b_removed
RemovedKeys(t_map, o_map) == Keys(o_map) \ Keys(t_map)

\* for key in removed: o_map.pop(key, None)
PopAll(d, removed) == SelectSeq(d, LAMBDA item : item[1] \notin removed)

\* a variant of the order below that applies the two sides the other way round
ApplyOrderSwapped(script_info) ==
    IF script_info = "ours" THEN <<"A", "B">> ELSE <<"B", "A">>

\* the side applied first, then the side applied second
ApplyOrder(script_info) ==
    IF script_info = "ours" THEN <<"B", "A">> ELSE <<"A", "B">>

merge_keyval(la, lo, lb, script_info) ==
    LET a_map == lines_to_map(la)
        o_map == lines_to_map(lo)
        b_map == lines_to_map(lb)
        changed == [A |-> ChangedItems(a_map, o_map),
                    B |-> ChangedItems(b_map, o_map)]
        removed == [A |-> RemovedKeys(a_map, o_map),
                    B |-> RemovedKeys(b_map, o_map)]
        first == ApplyOrder(script_info)[1]
        second == ApplyOrder(script_info)[2]
        o1 == Update(PopAll(o_map, removed[first]), changed[first])
        o2 == Update(PopAll(o1, removed[second]), changed[second])
    IN  [n \in 1..Len(o2) |-> [Type |-> o2[n][1], Value |-> o2[n][2]]]

(***************************************************************************)
(* merge_extradata                                                         *)
(***************************************************************************)
\* for f in (parent, mine, their)
FileOrder == <<"parent", "mine", "their">>

\* (data_line.Key, data_line.Value)
KeyValue(data_line) == <<data_line.Key, data_line.Value>>

\* a variant of the choice below that keeps the id of the line even when
\* another content has it
KeepId(data_line, by_id, largest) == data_line.Id

\* the id of a line whose content is new: its own, or largest_id + 1 when
\* another content has its own
NewContentId(data_line, by_id, largest) ==
    IF data_line.Id \in DOMAIN by_id THEN largest + 1 ELSE data_line.Id

Max(m, n) == IF m >= n THEN m ELSE n

\* [id_map[i] for i in dialogue_line.extra_indices if i in id_map]
Remap(extra_indices, map) ==
    LET kept == SelectSeq(extra_indices, LAMBDA i : i \in DOMAIN map)
    IN  [n \in 1..Len(kept) |-> map[kept[n]]]

\* sorted(id_to_extradata)
RECURSIVE Sorted(_)
Sorted(S) ==
    IF S = {} THEN <<>>
    ELSE LET least == CHOOSE m \in S : \A n \in S : m <= n
         IN  <<least>> \o Sorted(S \ {least})

(***************************************************************************)
(* Specification of find_matches: one step per iteration of its loop       *)
(***************************************************************************)
\* the variables of diff3 while it is not running
DiffIdle ==
    /\ A = <<>> /\ O = <<>> /\ B = <<>>
    /\ conflict_handler = "" /\ kwargs = <<>>
    /\ args_diff3 = FALSE /\ args_conflict_marker = "description"
    /\ o_to_a = <<>> /\ o_to_b = <<>> /\ pos = 0
    /\ prev_a = -1 /\ prev_b = -1 /\ prev_o = -1
    /\ yielded = <<>>
    /\ dialogue_conflict = FALSE /\ style_conflict = FALSE
    /\ d3_pc = "idle" /\ inputs = <<>> /\ walk = <<>>

\* the variables of ASSLine.merge while it is not running
MergeIdle ==
    /\ merge_a = None /\ merge_parent = None /\ merge_b = None
    /\ merged = None /\ merge_pc = "idle"

\* the variables of merge_keyval while it is not running
KeyvalIdle ==
    /\ kv_A = <<>> /\ kv_O = <<>> /\ kv_B = <<>>
    /\ args_script_info = "ours" /\ kv_result = <<>> /\ kv_pc = "idle"

\* the variables of merge_extradata while it is not running
ExtraIdle ==
    /\ files = <<>> /\ files_in = <<>>
    /\ extradata_to_id = <<>> /\ id_to_extradata = <<>>
    /\ largest_id = 0 /\ id_map = <<>>
    /\ ex_f = 0 /\ ex_line = 0 /\ ex_result = <<>> /\ ex_pc = "idle"

\* the variables of find_matches while it is not running
MatchIdle ==
    /\ self_a = <<>> /\ self_b = <<>> /\ memoizers = <<>>
    /\ queue = <<>> /\ matches = <<>> /\ fm_pc = "idle"

MatchInit ==
    /\ DiffIdle /\ MergeIdle /\ KeyvalIdle /\ ExtraIdle
    /\ \E kind \in Kinds :
        /\ memoizers = SectionMemoizers(kind)
        /\ \E la \in 0..MaxMatchTotal : \E lb \in 0..(MaxMatchTotal - la) :
            /\ self_a \in [1..la -> SectionLines(kind)]
            /\ self_b \in [1..lb -> SectionLines(kind)]
    /\ queue = << <<0, Len(self_a), 0, Len(self_b)>> >>
    /\ matches = <<>>
    /\ fm_pc = "loop"

\* while len(queue) > 0: one iteration
FmStep ==
    /\ fm_pc = "loop"
    /\ queue # <<>>
    /\ LET nxt == FmIter(self_a, self_b, memoizers, queue, matches)
       IN  /\ queue' = nxt[1]
           /\ matches' = nxt[2]
    /\ UNCHANGED <<self_a, self_b, memoizers, fm_pc>>
    /\ UNCHANGED <<diffVars, mergeVars, keyvalVars, extraVars>>

\* matches.sort(); return matches
FmReturn ==
    /\ fm_pc = "loop"
    /\ queue = <<>>
    /\ matches' = SortMatches(matches)
    /\ fm_pc' = "done"
    /\ UNCHANGED <<self_a, self_b, memoizers, queue>>
    /\ UNCHANGED <<diffVars, mergeVars, keyvalVars, extraVars>>

MatchNext == FmStep \/ FmReturn

SpecMatch == MatchInit /\ [][MatchNext]_vars

(***************************************************************************)
(* Specification of diff3: one step per iteration of its loop.  The calls  *)
(* are those of main(): the styles with style_conflict_handler, the events *)
(* with dialogue_conflict_handler, under the default command line and      *)
(* under --diff3 --conflict-marker diff3.                                  *)
(***************************************************************************)
Diff3Calls ==
    {[section |-> "V4+ Styles", handler |-> "style_conflict_handler",
      diff3flag |-> FALSE, marker |-> "description"],
     [section |-> "Events", handler |-> "dialogue_conflict_handler",
      diff3flag |-> FALSE, marker |-> "description"],
     [section |-> "Events", handler |-> "dialogue_conflict_handler",
      diff3flag |-> TRUE, marker |-> "diff3"]}

\* the locals, the output and the flags when diff3 is entered
DiffEntry ==
    /\ inputs = [A |-> A, O |-> O, B |-> B]
    /\ o_to_a = <<>> /\ o_to_b = <<>> /\ pos = 0
    /\ prev_a = -1 /\ prev_b = -1 /\ prev_o = -1
    /\ yielded = <<>>
    /\ dialogue_conflict = FALSE /\ style_conflict = FALSE
    /\ d3_pc = "start" /\ walk = <<>>

DiffCall(call) ==
    /\ conflict_handler = call.handler
    /\ kwargs = SectionMemoizers(call.section)
    /\ args_diff3 = call.diff3flag
    /\ args_conflict_marker = call.marker

DiffInit ==
    /\ MatchIdle /\ MergeIdle /\ KeyvalIdle /\ ExtraIdle
    /\ \E call \in Diff3Calls :
        /\ DiffCall(call)
        /\ \E na \in 0..MaxDiffTotal : \E no \in 0..(MaxDiffTotal - na) :
           \E nb \in 0..(MaxDiffTotal - na - no) :
            /\ A \in [1..na -> SectionLines(call.section)]
            /\ O \in [1..no -> SectionLines(call.section)]
            /\ B \in [1..nb -> SectionLines(call.section)]
    /\ DiffEntry

\* the calls under the default command line on three sequences of one
\* length: an ancestor whose records all have the same Fontname or Start,
\* and two sides that replaced any of its records
DiffInitEqual ==
    /\ MatchIdle /\ MergeIdle /\ KeyvalIdle /\ ExtraIdle
    /\ \E call \in {c \in Diff3Calls : ~c.diff3flag} :
        /\ DiffCall(call)
        /\ \E n \in 0..MaxEqualLen :
            /\ A \in [1..n -> SectionLines(call.section)]
            /\ O \in [1..n -> AncestorLines(call.section)]
            /\ B \in [1..n -> SectionLines(call.section)]
    /\ DiffEntry

diffConfig == <<conflict_handler, kwargs, args_diff3, args_conflict_marker,
                inputs>>

\* lines 308-341: the two alignments and their index maps
D3Start ==
    /\ d3_pc = "start"
    /\ o_to_a' = map_indices(find_matches(O, A, kwargs))
    /\ o_to_b' = map_indices(find_matches(O, B, kwargs))
    /\ pos' = 1
    /\ d3_pc' = "walk"
    /\ UNCHANGED <<A, O, B, prev_a, prev_b, prev_o, yielded,
                   dialogue_conflict, style_conflict, walk>>
    /\ UNCHANGED diffConfig
    /\ UNCHANGED <<matchVars, mergeVars, keyvalVars, extraVars>>

\* the steps of the history: a flushed hunk (lines 354-357 and 365-367), a
\* yielded merged line, a dropped position; each with the ranges of
\* positions of A, B and O it covers and the lines it yielded
HunkStep(a_hunk, b_hunk, o_hunk, res) ==
    [kind |-> "hunk", a |-> a_hunk, b |-> b_hunk, o |-> o_hunk,
     lines |-> res.lines, called |-> res.dialogue \/ res.style]

LineStep(kind, a, b, o, lines) ==
    [kind |-> kind, a |-> <<a, a + 1>>, b |-> <<b, b + 1>>,
     o |-> <<o, o + 1>>, lines |-> lines, called |-> FALSE]

\* for o in o_to_a: if o not in o_to_b: continue
D3Skip ==
    /\ d3_pc = "walk"
    /\ pos <= Len(o_to_a)
    /\ ~HasKey(o_to_b, o_to_a[pos][1])
    /\ pos' = pos + 1
    /\ UNCHANGED <<A, O, B, o_to_a, o_to_b, prev_a, prev_b, prev_o, yielded,
                   dialogue_conflict, style_conflict, d3_pc, walk>>
    /\ UNCHANGED diffConfig
    /\ UNCHANGED <<matchVars, mergeVars, keyvalVars, extraVars>>

\* a variant of the step below that moves the three cursors to the position
\* it drops
D3DropAdvancing ==
    /\ d3_pc = "walk"
    /\ pos <= Len(o_to_a)
    /\ HasKey(o_to_b, o_to_a[pos][1])
    /\ LET o == o_to_a[pos][1]
           a == Get(o_to_a, o)
           b == Get(o_to_b, o)
       IN  /\ merge(A[a + 1], O[o + 1], B[b + 1]) = None
           /\ walk' = Append(walk, LineStep("drop", a, b, o, <<>>))
           /\ prev_a' = a
           /\ prev_b' = b
           /\ prev_o' = o
    /\ pos' = pos + 1
    /\ UNCHANGED <<A, O, B, o_to_a, o_to_b, yielded, dialogue_conflict,
                   style_conflict, d3_pc>>
    /\ UNCHANGED diffConfig
    /\ UNCHANGED <<matchVars, mergeVars, keyvalVars, extraVars>>

\* for o in o_to_a: the field merge fails: continue
D3Drop ==
    /\ d3_pc = "walk"
    /\ pos <= Len(o_to_a)
    /\ HasKey(o_to_b, o_to_a[pos][1])
    /\ LET o == o_to_a[pos][1]
           a == Get(o_to_a, o)
           b == Get(o_to_b, o)
       IN  /\ merge(A[a + 1], O[o + 1], B[b + 1]) = None
           /\ walk' = Append(walk, LineStep("drop", a, b, o, <<>>))
    /\ pos' = pos + 1
    /\ UNCHANGED <<A, O, B, o_to_a, o_to_b, prev_a, prev_b, prev_o, yielded,
                   dialogue_conflict, style_conflict, d3_pc>>
    /\ UNCHANGED diffConfig
    /\ UNCHANGED <<matchVars, mergeVars, keyvalVars, extraVars>>

\* for o in o_to_a: the field merge succeeds: flush the hunk before the
\* position, if there is one, and yield the merged line
D3Yield ==
    /\ d3_pc = "walk"
    /\ pos <= Len(o_to_a)
    /\ HasKey(o_to_b, o_to_a[pos][1])
    /\ LET o == o_to_a[pos][1]
           a == Get(o_to_a, o)
           b == Get(o_to_b, o)
           line == merge(A[a + 1], O[o + 1], B[b + 1])
           a_hunk == <<prev_a + 1, a>>
           b_hunk == <<prev_b + 1, b>>
           o_hunk == <<prev_o + 1, o>>
           res == process_hunks(A, O, B, a_hunk, b_hunk, o_hunk,
                                conflict_handler, args_conflict_marker,
                                args_diff3)
       IN  /\ line # None
           /\ IF a > prev_a + 1 \/ b > prev_b + 1
              THEN /\ yielded' = yielded \o res.lines \o <<line>>
                   /\ A' = res.A
                   /\ B' = res.B
                   /\ dialogue_conflict' = (dialogue_conflict \/ res.dialogue)
                   /\ style_conflict' = (style_conflict \/ res.style)
                   /\ walk' = walk \o <<HunkStep(a_hunk, b_hunk, o_hunk, res),
                                        LineStep("line", a, b, o, <<line>>)>>
              ELSE /\ yielded' = Append(yielded, line)
                   /\ walk' = Append(walk, LineStep("line", a, b, o, <<line>>))
                   /\ UNCHANGED <<A, B, dialogue_conflict, style_conflict>>
           /\ prev_a' = a
           /\ prev_b' = b
           /\ prev_o' = o
    /\ pos' = pos + 1
    /\ UNCHANGED <<O, o_to_a, o_to_b, d3_pc>>
    /\ UNCHANGED diffConfig
    /\ UNCHANGED <<matchVars, mergeVars, keyvalVars, extraVars>>

\* lines 365-367: the final hunk
D3Finish ==
    /\ d3_pc = "walk"
    /\ pos > Len(o_to_a)
    /\ LET a_hunk == <<prev_a + 1, Len(A)>>
           b_hunk == <<prev_b + 1, Len(B)>>
           o_hunk == <<prev_o + 1, Len(O)>>
           res == process_hunks(A, O, B, a_hunk, b_hunk, o_hunk,
                                conflict_handler, args_conflict_marker,
                                args_diff3)
       IN  /\ yielded' = yielded \o res.lines
           /\ A' = res.A
           /\ B' = res.B
           /\ dialogue_conflict' = (dialogue_conflict \/ res.dialogue)
           /\ style_conflict' = (style_conflict \/ res.style)
           /\ walk' = Append(walk, HunkStep(a_hunk, b_hunk, o_hunk, res))
    /\ d3_pc' = "done"
    /\ UNCHANGED <<O, o_to_a, o_to_b, pos, prev_a, prev_b, prev_o>>
    /\ UNCHANGED diffConfig
    /\ UNCHANGED <<matchVars, mergeVars, keyvalVars, extraVars>>

DiffNext == D3Start \/ D3Skip \/ D3Drop \/ D3Yield \/ D3Finish

SpecDiff3 == DiffInit /\ [][DiffNext]_vars

SpecDiff3Equal == DiffInitEqual /\ [][DiffNext]_vars

(***************************************************************************)
(* Specification of ASSLine.merge on every triple of records of one kind   *)
(***************************************************************************)
MergeLines(kind) ==
    IF kind = "V4+ Styles"
    THEN [Name : {<<"x">>, <<"y">>}, Fontname : {<<"x">>, <<"y">>, <<"z">>}]
    ELSE [Text : {<<"x">>, <<"y">>}, Start : {<<"x">>, <<"y">>, <<"z">>},
          End : {<<"x">>}]

MergeInit ==
    /\ MatchIdle /\ DiffIdle /\ KeyvalIdle /\ ExtraIdle
    /\ \E kind \in Kinds :
        /\ merge_a \in MergeLines(kind)
        /\ merge_parent \in MergeLines(kind)
        /\ merge_b \in MergeLines(kind)
    /\ merged = None
    /\ merge_pc = "call"

DoMerge ==
    /\ merge_pc = "call"
    /\ merged' = merge(merge_a, merge_parent, merge_b)
    /\ merge_pc' = "done"
    /\ UNCHANGED <<merge_a, merge_parent, merge_b>>
    /\ UNCHANGED <<matchVars, diffVars, keyvalVars, extraVars>>

MergeNext == DoMerge

SpecMerge == MergeInit /\ [][MergeNext]_vars

(***************************************************************************)
(* Specification of merge_keyval on three sections of key/value lines      *)
(***************************************************************************)
KeyValueLines ==
    [Type : {<<"Title">>}, Value : {<<"1">>, <<"2">>, <<"3">>}]
        \cup [Type : {<<"PlayResX">>}, Value : {<<"1">>}]

KeyvalInit ==
    /\ MatchIdle /\ DiffIdle /\ MergeIdle /\ ExtraIdle
    /\ args_script_info \in {"ours", "theirs"}
    /\ \E na \in 0..MaxKeyvalTotal : \E no \in 0..(MaxKeyvalTotal - na) :
       \E nb \in 0..(MaxKeyvalTotal - na - no) :
        /\ kv_A \in [1..na -> KeyValueLines]
        /\ kv_O \in [1..no -> KeyValueLines]
        /\ kv_B \in [1..nb -> KeyValueLines]
    /\ kv_result = <<>>
    /\ kv_pc = "call"

DoMergeKeyval ==
    /\ kv_pc = "call"
    /\ kv_result' = merge_keyval(kv_A, kv_O, kv_B, args_script_info)
    /\ kv_pc' = "done"
    /\ UNCHANGED <<kv_A, kv_O, kv_B, args_script_info>>
    /\ UNCHANGED <<matchVars, diffVars, mergeVars, extraVars>>

KeyvalNext == DoMergeKeyval

SpecKeyval == KeyvalInit /\ [][KeyvalNext]_vars

(***************************************************************************)
(* Specification of merge_extradata: one step per data line, one per file  *)
(* for its events, one for the return                                      *)
(***************************************************************************)
ExtraIds == {1, 2}

DataLines ==
    [Id : ExtraIds, Key : {<<"k">>}, Value : {<<"x">>, <<"y">>}]
        \cup [Id : ExtraIds, Key : {<<"l">>}, Value : {<<"x">>}]

\* the Events of a file: the first id, the second id and an id no table has
EventLists == { << <<1, 2, 3>> >>, << <<2, 1>>, <<3, 2, 2>> >> }

UniqueIds(table) ==
    \A m, n \in 1..Len(table) : table[m].Id = table[n].Id => m = n

ExtraInit ==
    /\ MatchIdle /\ DiffIdle /\ MergeIdle /\ KeyvalIdle
    /\ \E np \in 0..MaxExtraTotal : \E nm \in 0..(MaxExtraTotal - np) :
       \E nt \in 0..(MaxExtraTotal - np - nm) :
       \E tp \in [1..np -> DataLines] : \E tm \in [1..nm -> DataLines] :
       \E tt \in [1..nt -> DataLines] :
       \E ep \in EventLists : \E em \in EventLists : \E et \in EventLists :
        /\ UniqueIds(tp) /\ UniqueIds(tm) /\ UniqueIds(tt)
        /\ files = [parent |-> [extradata |-> tp, events |-> ep],
                    mine |-> [extradata |-> tm, events |-> em],
                    their |-> [extradata |-> tt, events |-> et]]
    /\ files_in = files
    /\ extradata_to_id = <<>> /\ id_to_extradata = <<>>
    /\ largest_id = 0 /\ id_map = <<>>
    /\ ex_f = 1 /\ ex_line = 0 /\ ex_result = <<>> /\ ex_pc = "loop"

\* one iteration of "for data_line in f[...]"
ExDataLine ==
    /\ ex_pc = "loop"
    /\ ex_line < Len(files[FileOrder[ex_f]].extradata)
    /\ LET f == FileOrder[ex_f]
           data_line == files[f].extradata[ex_line + 1]
           original_id == data_line.Id
           known == KeyValue(data_line) \in DOMAIN extradata_to_id
           id == IF known THEN extradata_to_id[KeyValue(data_line)]
                 ELSE NewContentId(data_line, id_to_extradata, largest_id)
           line == [data_line EXCEPT !.Id = id]
       IN  /\ files' = [files EXCEPT ![f].extradata[ex_line + 1] = line]
           /\ IF known
              THEN UNCHANGED <<extradata_to_id, id_to_extradata, largest_id>>
              ELSE /\ extradata_to_id' =
                        (KeyValue(data_line) :> id) @@ extradata_to_id
                   /\ id_to_extradata' = (id :> line) @@ id_to_extradata
                   /\ largest_id' = Max(largest_id, id)
           /\ id_map' = (original_id :> id) @@ id_map
    /\ ex_line' = ex_line + 1
    /\ UNCHANGED <<files_in, ex_f, ex_result, ex_pc>>
    /\ UNCHANGED <<matchVars, diffVars, mergeVars, keyvalVars>>

\* "for dialogue_line in f[...]", then the next file
ExEvents ==
    /\ ex_pc = "loop"
    /\ ex_line = Len(files[FileOrder[ex_f]].extradata)
    /\ LET f == FileOrder[ex_f]
       IN  files' = [files EXCEPT ![f].events =
                        [n \in 1..Len(@) |-> Remap(@[n], id_map)]]
    /\ id_map' = <<>>
    /\ ex_line' = 0
    /\ IF ex_f < Len(FileOrder)
       THEN ex_f' = ex_f + 1 /\ ex_pc' = "loop"
       ELSE ex_f' = ex_f /\ ex_pc' = "return"
    /\ UNCHANGED <<files_in, extradata_to_id, id_to_extradata, largest_id,
                   ex_result>>
    /\ UNCHANGED <<matchVars, diffVars, mergeVars, keyvalVars>>

ExReturn ==
    /\ ex_pc = "return"
    /\ LET ids == Sorted(DOMAIN id_to_extradata)
       IN  ex_result' = [n \in 1..Len(ids) |-> id_to_extradata[ids[n]]]
    /\ ex_pc' = "done"
    /\ UNCHANGED <<files, files_in, extradata_to_id, id_to_extradata,
                   largest_id, id_map, ex_f, ex_line>>
    /\ UNCHANGED <<matchVars, diffVars, mergeVars, keyvalVars>>

ExtraNext == ExDataLine \/ ExEvents \/ ExReturn

SpecExtra == ExtraInit /\ [][ExtraNext]_vars

(***************************************************************************)
(* C3: ASSLine.merge                                                       *)
(***************************************************************************)
BothChanged(a, parent, b) ==
    {field \in DOMAIN parent : a[field] # parent[field] /\ b[field] # parent[field]}

\* C3: merge(local, ancestor, remote) fails exactly when some field differs
\* from ancestor in both local and remote, even if both set it to the same
\* value; otherwise every field of the record it returns has local's value if
\* local changed it, remote's value if remote changed it and ancestor's value
\* if neither did, so merge(X, X, X) is a record equal to X.
C3_FieldMerge ==
    merge_pc = "done" =>
        /\ merged = None <=> BothChanged(merge_a, merge_parent, merge_b) # {}
        /\ merged # None =>
            /\ DOMAIN merged = DOMAIN merge_parent
            /\ \A field \in DOMAIN merge_parent :
                merged[field] =
                    IF merge_a[field] # merge_parent[field] THEN merge_a[field]
                    ELSE IF merge_b[field] # merge_parent[field]
                         THEN merge_b[field]
                    ELSE merge_parent[field]
        /\ (merge_a = merge_parent /\ merge_b = merge_parent) => merged = merge_parent

\* C3 witness: both sides set one field to the same new value and merge failed
C3_Witness ==
    /\ merge_pc = "done"
    /\ merged = None
    /\ merge_a = merge_b
    /\ Cardinality(BothChanged(merge_a, merge_parent, merge_b)) = 1

(***************************************************************************)
(* C5: merge_extradata                                                     *)
(***************************************************************************)
Versions == {"parent", "mine", "their"}

TableIds(table) == {table[n].Id : n \in 1..Len(table)}

\* the (key, value) the id denotes in the table
Denoted(table, id) ==
    LET n == CHOOSE m \in 1..Len(table) : table[m].Id = id
    IN  <<table[n].Key, table[n].Value>>

\* the references of an event that its own version's table has
Resolvable(v, e) ==
    SelectSeq(files_in[v].events[e],
              LAMBDA i : i \in TableIds(files_in[v].extradata))

\* every entry of every version, as <<id it ended with, key, value>>
FinalEntries ==
    UNION {{<<files[v].extradata[n].Id, files[v].extradata[n].Key,
              files[v].extradata[n].Value>> : n \in 1..Len(files[v].extradata)}
           : v \in Versions}

\* C5: after merge_extradata on three versions whose side tables have unique
\* ids, every reference of every event of every version is the id of an entry
\* of the returned table whose (key, value) is the one the reference denoted
\* in the event's own version before; references to ids the version's table
\* lacks are dropped; entries of equal (key, value) in any version end with
\* the same id and entries of distinct content with distinct ids.
C5_ReferencesKeepContent ==
    ex_pc = "done" =>
        /\ UniqueIds(ex_result)
        /\ \A v \in Versions :
            /\ Len(files[v].events) = Len(files_in[v].events)
            /\ \A e \in 1..Len(files_in[v].events) :
                /\ Len(files[v].events[e]) = Len(Resolvable(v, e))
                /\ \A p \in 1..Len(Resolvable(v, e)) :
                    /\ files[v].events[e][p] \in TableIds(ex_result)
                    /\ Denoted(ex_result, files[v].events[e][p]) =
                        Denoted(files_in[v].extradata, Resolvable(v, e)[p])
            /\ Len(files[v].extradata) = Len(files_in[v].extradata)
            /\ \A n \in 1..Len(files_in[v].extradata) :
                KeyValue(files[v].extradata[n]) =
                    KeyValue(files_in[v].extradata[n])
        /\ \A x, y \in FinalEntries :
            (x[1] = y[1]) <=> (x[2] = y[2] /\ x[3] = y[3])
        /\ \A x \in FinalEntries :
            x[1] \in TableIds(ex_result) /\ Denoted(ex_result, x[1]) = <<x[2], x[3]>>

\* C5 witness: one version's entry took the id of another version's entry of
\* the same content, another entry got an id no input table had because its
\* own was taken, and a reference was dropped
C5_Witness ==
    /\ ex_pc = "done"
    /\ \E v \in Versions : \E n \in 1..Len(files[v].extradata) :
        /\ files[v].extradata[n].Id \notin ExtraIds
        /\ \E e \in 1..Len(files[v].events) : \E p \in 1..Len(files[v].events[e]) :
            files[v].events[e][p] = files[v].extradata[n].Id
    /\ \E v \in Versions : \E n \in 1..Len(files[v].extradata) :
        /\ files[v].extradata[n].Id # files_in[v].extradata[n].Id
        /\ files[v].extradata[n].Id \in ExtraIds
    /\ \E v \in Versions : \E e \in 1..Len(files[v].events) :
        Len(files[v].events[e]) < Len(files_in[v].events[e])

(***************************************************************************)
(* C7, C8: merge_keyval                                                    *)
(***************************************************************************)
\* no entry for the key
Absent == <<>>

\* the value a section gives a key: that of its last entry for the key
Outcome(section, key) ==
    LET at == {n \in 1..Len(section) : section[n].Type = key}
    IN  IF at = {} THEN Absent
        ELSE section[CHOOSE n \in at : \A m \in at : m <= n].Value

SectionKeys(section) == {section[n].Type : n \in 1..Len(section)}

UniqueKeys(section) ==
    \A m, n \in 1..Len(section) : section[m].Type = section[n].Type => m = n

\* the side --script-info selects
Preferred == IF args_script_info = "ours" THEN kv_A ELSE kv_B

\* both sides changed the key relative to the ancestor, with different outcomes
Collision(key) ==
    /\ Outcome(kv_A, key) # Outcome(kv_O, key)
    /\ Outcome(kv_B, key) # Outcome(kv_O, key)
    /\ Outcome(kv_A, key) # Outcome(kv_B, key)

\* C7: for every key that both local and remote changed relative to ancestor
\* with different outcomes, the merged section has the outcome of the side
\* selected by --script-info: its value if it set or added the key, no entry
\* if it removed the key.
C7_Precedence ==
    kv_pc = "done" =>
        \A key \in SectionKeys(kv_A) \cup SectionKeys(kv_O) \cup SectionKeys(kv_B) :
            Collision(key) =>
                /\ Outcome(kv_result, key) = Outcome(Preferred, key)
                /\ Cardinality({n \in 1..Len(kv_result) :
                                    kv_result[n].Type = key}) <= 1

\* C7 witness: both sides gave a key of the ancestor a new value, not the same
C7_Witness ==
    /\ kv_pc = "done"
    /\ \E key \in SectionKeys(kv_O) :
        /\ Collision(key)
        /\ Outcome(kv_A, key) # Absent
        /\ Outcome(kv_B, key) # Absent

AllUniqueKeys == UniqueKeys(kv_A) /\ UniqueKeys(kv_O) /\ UniqueKeys(kv_B)

\* C8 as stated: with unique keys, if local equals ancestor the merged section
\* equals remote's section as an ordered sequence of entries, and if remote
\* equals ancestor it equals local's.
C8_IdentitySideWinsInOrder ==
    (kv_pc = "done" /\ AllUniqueKeys) =>
        /\ kv_A = kv_O => kv_result = kv_B
        /\ kv_B = kv_O => kv_result = kv_A

\* the entries of side whose key the ancestor has, in the ancestor's order,
\* followed by the entries of side whose key it lacks, in the order of side
KeptThenAdded(ancestor, side) ==
    LET kept == SelectSeq(ancestor, LAMBDA e : e.Type \in SectionKeys(side))
    IN  [n \in 1..Len(kept) |->
            [Type |-> kept[n].Type, Value |-> Outcome(side, kept[n].Type)]]
        \o SelectSeq(side, LAMBDA e : e.Type \notin SectionKeys(ancestor))

SameEntries(s, t) ==
    /\ UniqueKeys(s)
    /\ {s[n] : n \in 1..Len(s)} = {t[n] : n \in 1..Len(t)}

\* C8: with unique keys, if local equals ancestor the merged section has
\* exactly the entries of remote's section (same keys, same values, each key
\* once), the keys of the ancestor first in the ancestor's order and then the
\* keys remote added in remote's order; symmetrically for remote equal to
\* ancestor; for either --script-info.
C8_IdentitySideWinsAsMapping ==
    (kv_pc = "done" /\ AllUniqueKeys) =>
        /\ kv_A = kv_O =>
            /\ SameEntries(kv_result, kv_B)
            /\ kv_result = KeptThenAdded(kv_O, kv_B)
        /\ kv_B = kv_O =>
            /\ SameEntries(kv_result, kv_A)
            /\ kv_result = KeptThenAdded(kv_O, kv_A)

\* C8 witness: local equals ancestor and remote put a new key in front
C8_Witness ==
    /\ kv_pc = "done" /\ AllUniqueKeys
    /\ kv_A = kv_O /\ kv_O # <<>>
    /\ Len(kv_B) = Len(kv_O) + 1
    /\ kv_B[1].Type \notin SectionKeys(kv_O)
    /\ kv_result # kv_B

(***************************************************************************)
(* C6: the alignment find_matches returns is a valid alignment.  Taken in  *)
(* the returned order, every run lies inside both sequences, each run      *)
(* ends at or before the start of the next in a and in b, the starts       *)
(* increase strictly in both coordinates, and at every offset of a run the *)
(* two records agree under at least one of the key functions.              *)
(***************************************************************************)
RunInside(m, a, b) ==
    /\ m[3] >= 0
    /\ 0 <= m[1] /\ m[1] + m[3] <= Len(a)
    /\ 0 <= m[2] /\ m[2] + m[3] <= Len(b)

RunAgrees(m, a, b, memos) ==
    \A k \in 0..(m[3] - 1) :
        \E n \in 1..Len(memos) :
            Memo(memos[n], a[m[1] + k + 1]) = Memo(memos[n], b[m[2] + k + 1])

RunsMonotonic(ms) ==
    \A k \in 1..(Len(ms) - 1) :
        /\ ms[k][1] + ms[k][3] <= ms[k + 1][1]
        /\ ms[k][2] + ms[k][3] <= ms[k + 1][2]
        /\ ms[k][1] < ms[k + 1][1]
        /\ ms[k][2] < ms[k + 1][2]

ValidAlignment(ms, a, b, memos) ==
    /\ \A k \in 1..Len(ms) :
        RunInside(ms[k], a, b) /\ RunAgrees(ms[k], a, b, memos)
    /\ RunsMonotonic(ms)

C6_ValidAlignment ==
    fm_pc = "done" => ValidAlignment(matches, self_a, self_b, memoizers)

\* an alignment of two non-empty runs with an unmatched record of a between
\* them, the first of which pairs two records that differ (they agree under
\* one key function only)
C6_Witness ==
    /\ fm_pc = "done"
    /\ Len(matches) = 2
    /\ matches[1][3] > 0
    /\ self_a[matches[1][1] + 1] # self_b[matches[1][2] + 1]
    /\ matches[2][3] > 0
    /\ matches[1][1] + matches[1][3] < matches[2][1]

(***************************************************************************)
(* Claims about diff3                                                      *)
(***************************************************************************)
HandlerCalled == \E n \in 1..Len(walk) : walk[n].called

\* C1: identity-side-wins.  When local equals ancestor element by element
\* diff3 yields exactly remote, when remote equals ancestor it yields
\* exactly local, and in both cases the conflict handler is never invoked.
C1_IdentitySideWins ==
    /\ (d3_pc # "idle" /\ (inputs.A = inputs.O \/ inputs.B = inputs.O))
            => ~HandlerCalled /\ ~dialogue_conflict /\ ~style_conflict
    /\ (d3_pc = "done" /\ inputs.A = inputs.O) => yielded = inputs.B
    /\ (d3_pc = "done" /\ inputs.B = inputs.O) => yielded = inputs.A

\* local equals ancestor, remote changed a field of a matched record and
\* added records next to it; diff3 has finished
C1_Witness ==
    /\ d3_pc = "done"
    /\ inputs.A = inputs.O
    /\ \E n \in 1..Len(walk) :
        /\ walk[n].kind = "line"
        /\ inputs.B[walk[n].b[1] + 1] # inputs.O[walk[n].o[1] + 1]
    /\ \E n \in 1..Len(walk) :
        /\ walk[n].kind = "hunk"
        /\ RangeLen(walk[n].b) > 0

\* C2: identical edits do not conflict.  When local equals remote element
\* by element diff3 yields that common content, the conflict handler is
\* never invoked and no conflict flag is set.
C2_IdenticalEdits ==
    /\ (d3_pc # "idle" /\ inputs.A = inputs.B)
            => ~HandlerCalled /\ ~dialogue_conflict /\ ~style_conflict
    /\ (d3_pc = "done" /\ inputs.A = inputs.B) => yielded = inputs.A

\* local equals remote, both differ from ancestor, and the field merge of a
\* matched record failed because both changed the same field to the same
\* value; diff3 has finished
C2_Witness ==
    /\ d3_pc = "done"
    /\ inputs.A = inputs.B
    /\ inputs.A # inputs.O
    /\ \E n \in 1..Len(walk) : walk[n].kind = "drop"
    /\ Len(inputs.A) > 1

\* C9: the conflict policies leave every record of the three input
\* sequences with the field values it had before the call.
C9_InputsUnchanged ==
    d3_pc # "idle" => A = inputs.A /\ O = inputs.O /\ B = inputs.B

\* the lines the steps of the history yielded, in order
RECURSIVE LinesOf(_, _)
LinesOf(w, n) == IF n = 0 THEN <<>> ELSE LinesOf(w, n - 1) \o w[n].lines

\* C4: sequential conflicts are surfaced.  Under the sequential-conflict
\* policy a hunk whose local, ancestor and remote slices differ pairwise
\* yields the start-of-own marker, the local slice, (only under --diff3) the
\* ancestor marker and the ancestor slice, the start-of-other marker, the
\* remote slice and the end-of-other marker, in that order, and sets the
\* sequential-conflict flag; the flag is set in no other case.
MarkerLine(which) ==
    ConflictLine(CONFLICT_MARKERS(args_conflict_marker, args_diff3, which))

C4_SequentialConflict ==
    conflict_handler = "dialogue_conflict_handler" =>
        /\ yielded = LinesOf(walk, Len(walk))
        /\ \A n \in 1..Len(walk) :
            walk[n].kind = "hunk" =>
                LET local == Slice(inputs.A, walk[n].a)
                    remote == Slice(inputs.B, walk[n].b)
                    ancestor == Slice(inputs.O, walk[n].o)
                IN  IF local # ancestor /\ remote # ancestor /\ local # remote
                    THEN /\ walk[n].called
                         /\ walk[n].lines =
                                <<MarkerLine("ours")>> \o local
                                \o (IF args_diff3
                                    THEN <<MarkerLine("ancestor")>> \o ancestor
                                    ELSE <<>>)
                                \o <<MarkerLine("theirs")>> \o remote
                                \o <<MarkerLine("end")>>
                    ELSE ~walk[n].called
        /\ dialogue_conflict = HandlerCalled
        /\ ~style_conflict

\* a conflict hunk with records on all three sides under --diff3, after the
\* walk has finished
C4_Witness ==
    /\ d3_pc = "done"
    /\ conflict_handler = "dialogue_conflict_handler"
    /\ args_diff3
    /\ dialogue_conflict
    /\ \E n \in 1..Len(walk) :
        /\ walk[n].called
        /\ RangeLen(walk[n].a) > 0
        /\ RangeLen(walk[n].b) > 0
        /\ RangeLen(walk[n].o) > 0
        /\ Len(walk[n].lines) =
                4 + RangeLen(walk[n].a) + RangeLen(walk[n].b)
                  + RangeLen(walk[n].o)

\* C10: a failed field merge becomes part of the next hunk.  A dropped
\* position yields nothing (the output is what the hunks and the confirmed
\* positions yielded) and leaves the three cursors where they were (the
\* cursors stay at the end of the last hunk or confirmed position); the
\* dropped local, remote and ancestor positions all lie inside the next
\* hunk flushed, with no line yielded in between; and the hunks and
\* confirmed positions cover the positions of local and of remote in order,
\* each exactly once.
InRange(i, r) == r[1] <= i /\ i < r[2]

Emitting(w) == SelectSeq(w, LAMBDA e : e.kind # "drop")

\* the ranges of the steps tile 0 .. upto - 1 in order
Tiles(steps, side, upto) ==
    /\ \A n \in 1..Len(steps) :
        /\ steps[n][side][1] <= steps[n][side][2]
        /\ steps[n][side][1] = (IF n = 1 THEN 0 ELSE steps[n - 1][side][2])
    /\ upto = (IF steps = <<>> THEN 0 ELSE steps[Len(steps)][side][2])

\* the ranges of the steps follow one another, without overlap, up to upto
Ordered(steps, side, upto) ==
    /\ \A n \in 1..Len(steps) :
        /\ steps[n][side][1] <= steps[n][side][2]
        /\ steps[n][side][1] >= (IF n = 1 THEN 0 ELSE steps[n - 1][side][2])
    /\ upto = (IF steps = <<>> THEN 0 ELSE steps[Len(steps)][side][2])

DropJoinsNextHunk(n) ==
    LET later == {m \in (n + 1)..Len(walk) : walk[m].kind # "drop"}
    IN  IF later = {}
        THEN /\ d3_pc = "walk"
             /\ walk[n].a[1] > prev_a
             /\ walk[n].b[1] > prev_b
             /\ walk[n].o[1] > prev_o
        ELSE LET m == CHOOSE m \in later : \A k \in later : m <= k
             IN  /\ walk[m].kind = "hunk"
                 /\ InRange(walk[n].a[1], walk[m].a)
                 /\ InRange(walk[n].b[1], walk[m].b)
                 /\ InRange(walk[n].o[1], walk[m].o)

C10_DroppedJoinsNextHunk ==
    d3_pc \in {"walk", "done"} =>
        LET steps == Emitting(walk)
            done == d3_pc = "done"
        IN  /\ \A n \in 1..Len(walk) :
                walk[n].kind = "drop" => DropJoinsNextHunk(n)
            /\ yielded = LinesOf(steps, Len(steps))
            /\ Tiles(steps, "a", IF done THEN Len(inputs.A) ELSE prev_a + 1)
            /\ Tiles(steps, "b", IF done THEN Len(inputs.B) ELSE prev_b + 1)
            /\ Ordered(steps, "o", IF done THEN Len(inputs.O) ELSE prev_o + 1)

\* a position was dropped, a later position was confirmed and flushed the
\* hunk holding the dropped records, and the walk has finished
C10_Witness ==
    /\ d3_pc = "done"
    /\ \E n \in 1..(Len(walk) - 2) :
        /\ walk[n].kind = "drop"
        /\ walk[n + 1].kind = "hunk"
        /\ walk[n + 2].kind = "line"

====
